---- MODULE Spec2Model ----
(***************************************************************************)
(* Learning Progress Tracker (src/learning_api.py): the learning_updates   *)
(* table, the request handlers working on it and the bearer-token check    *)
(* in front of add-progress.                                               *)
(*                                                                         *)
(* Conventions.                                                            *)
(*  - hours_spent is a float in the code; here it is an integer number of  *)
(*    thousandths of an hour (1002 is 1.002 h), so 0 < h < 24 reads        *)
(*    0 < h < 24 * 1000 and round(x, 2) rounds to a multiple of 10.        *)
(*  - an Optional value is a sequence of length at most one: <<>> is       *)
(*    None / SQL NULL / an absent header, <<v>> is the value v.            *)
(*  - a JSON text is the sequence of its tokens.                           *)
(*  - time is counted in whole seconds since the service started.          *)
(***************************************************************************)
EXTENDS Integers, Sequences, FiniteSets, TLC

VARIABLES
    table,      \* rows of learning_updates, in rowid order
    seq,        \* sqlite_sequence.seq of learning_updates (AUTOINCREMENT)
    clock,      \* datetime.now() / datetime.utcnow()
    last,       \* the request handled last, with its response
    issued,     \* history: ids returned by INSERT ... RETURNING id, in order
    deleted     \* history: ids removed by DELETE FROM learning_updates

vars == <<table, seq, clock, last, issued, deleted>>

----------------------------------------------------------------------------
(* Bounds of the model *)

MaxId == 2
MaxClock == 1

----------------------------------------------------------------------------
(* Optional values *)

None == <<>>
Some(v) == <<v>>
IsNone(o) == Len(o) = 0
Get(o) == o[1]

Range(s) == {s[i] : i \in 1..Len(s)}

RECURSIVE SumSeq(_)
SumSeq(s) == IF s = <<>> THEN 0 ELSE s[1] + SumSeq(Tail(s))

SetMax(S) == IF S = {} THEN 0 ELSE CHOOSE m \in S : \A x \in S : x <= m

----------------------------------------------------------------------------
(* Security configuration and users *)

SECRET_KEY == "your-secret-key-keep-it-safe"

fake_users_db == {"denis"}

(* get_current_user with the expiry of the token not verified *)
get_current_user_NoExpiry(token, now) ==
    IF token.key # SECRET_KEY THEN None
    ELSE IF IsNone(token.sub) THEN None
    ELSE IF Get(token.sub) \notin fake_users_db THEN None
    ELSE Some(Get(token.sub))

(* jwt.decode + the checks of get_current_user: the signature, the expiry  *)
(* (jose rejects exp < now), the "sub" claim, and the user lookup.         *)
(* The result is the user, or None where credentials_exception is raised.  *)
get_current_user(token, now) ==
    IF token.key # SECRET_KEY THEN None
    ELSE IF token.exp < now THEN None
    ELSE IF IsNone(token.sub) THEN None
    ELSE IF Get(token.sub) \notin fake_users_db THEN None
    ELSE Some(Get(token.sub))

----------------------------------------------------------------------------
(* Models *)

LearningTopic == {"Python", "FastAPI", "Database", "Docker", "AI", "Django"}

(* LearningUpdateValid with ge=0 for hours_spent and no length on notes *)
LearningUpdateValid_Lax(u) ==
    /\ u.topic \in LearningTopic
    /\ u.hours_spent >= 0 /\ u.hours_spent < 24 * 1000
    /\ u.difficulty_level >= 1 /\ u.difficulty_level <= 5
    /\ u.understanding_level >= 1 /\ u.understanding_level <= 10

(* class LearningUpdate: what pydantic accepts as the body of add-progress *)
LearningUpdateValid(u) ==
    /\ u.topic \in LearningTopic
    /\ u.hours_spent > 0 /\ u.hours_spent < 24 * 1000
    /\ u.difficulty_level >= 1 /\ u.difficulty_level <= 5
    /\ Len(u.notes) >= 10
    /\ u.understanding_level >= 1 /\ u.understanding_level <= 10

(* PatchFieldValid with ge=0 for hours_spent *)
PatchFieldValid_Lax(f, o) ==
    \/ IsNone(o)
    \/ CASE f = "topic" -> Get(o) \in LearningTopic
         [] f = "hours_spent" -> Get(o) >= 0 /\ Get(o) < 24 * 1000
         [] f = "difficulty_level" -> Get(o) >= 1 /\ Get(o) <= 5
         [] f = "notes" -> Len(Get(o)) >= 10
         [] f = "understanding_level" -> Get(o) >= 1 /\ Get(o) <= 10
         [] OTHER -> TRUE

(* One field of class LearningUpdatePatch: None passes (every field is     *)
(* Optional), a value is held to the constraint of its Field.              *)
PatchFieldValid(f, o) ==
    \/ IsNone(o)
    \/ CASE f = "topic" -> Get(o) \in LearningTopic
         [] f = "hours_spent" -> Get(o) > 0 /\ Get(o) < 24 * 1000
         [] f = "difficulty_level" -> Get(o) >= 1 /\ Get(o) <= 5
         [] f = "notes" -> Len(Get(o)) >= 10
         [] f = "understanding_level" -> Get(o) >= 1 /\ Get(o) <= 10
         [] OTHER -> TRUE

(* class LearningUpdatePatch: a patch is a function from the fields set in *)
(* the body (model_dump(exclude_unset=True)) to Optional values.           *)
LearningUpdatePatchValid(p) ==
    \A f \in DOMAIN p : PatchFieldValid(f, p[f])

----------------------------------------------------------------------------
(* json.dumps / json.loads of the questions column *)

Punct(c) == [t |-> "punct", v |-> c]
Str(s) == [t |-> "str", v |-> s]

RECURSIVE DumpItems(_)
DumpItems(xs) ==
    IF xs = <<>> THEN <<>>
    ELSE IF Len(xs) = 1 THEN <<Str(xs[1])>>
    ELSE <<Str(xs[1]), Punct(",")>> \o DumpItems(Tail(xs))

(* json.dumps of an Optional[List[str]]: None gives the text null *)
json_dumps(q) ==
    IF IsNone(q) THEN <<Punct("null")>>
    ELSE <<Punct("[")>> \o DumpItems(Get(q)) \o <<Punct("]")>>

(* json.loads of a text written by json_dumps *)
json_loads(text) ==
    IF text = <<Punct("null")>> THEN None
    ELSE Some([i \in 1..(Len(text) \div 2) |-> text[2 * i].v])

(* json.loads(row[6]) if row[6] else [] *)
LoadQuestions(col) ==
    IF IsNone(col) \/ Get(col) = <<>> THEN Some(<<>>) ELSE json_loads(Get(col))

----------------------------------------------------------------------------
(* The learning_updates table *)

Ids(t) == {t[i].id : i \in 1..Len(t)}

RowOf(t, id) == t[CHOOSE i \in 1..Len(t) : t[i].id = id]

(* NextRowid without AUTOINCREMENT: one more than the largest rowid now in *)
(* the table                                                               *)
NextRowid_NoAutoincrement(t, s) == SetMax(Ids(t)) + 1

(* id INTEGER PRIMARY KEY AUTOINCREMENT: one more than the largest rowid   *)
(* the table has ever held                                                 *)
NextRowid(t, s) == SetMax(Ids(t) \cup {s}) + 1

(* the dict built from a row by view, update and by-topic *)
Entry(row) ==
    [id |-> row.id,
     topic |-> row.topic,
     hours_spent |-> row.hours_spent,
     difficulty_level |-> row.difficulty_level,
     notes |-> row.notes,
     understanding_level |-> row.understanding_level,
     questions |-> LoadQuestions(row.questions),
     timestamp |-> row.timestamp]

----------------------------------------------------------------------------
(* Requests and responses *)

Blank ==
    [op |-> "start", bearer |-> None, entry_id |-> 0, update |-> None,
     patch |-> None, status |-> 0, detail |-> "", message |-> "",
     data |-> <<>>, deleted_id |-> 0, total_entries |-> 0, total_hours |-> 0,
     summary |-> None, topic_statistics |-> <<>>,
     topic |-> "", recent_entries |-> 0, average_difficulty |-> 0,
     username |-> None, password |-> None, expires_delta |-> None,
     access_token |-> None, token_type |-> "",
     pc |-> "idle", stmt |-> 0, connections |-> 0, requests |-> <<>>]

----------------------------------------------------------------------------
(* Inputs *)

GoodToken == [key |-> SECRET_KEY, sub |-> Some("denis"), exp |-> MaxClock]
ExpiredToken == [key |-> SECRET_KEY, sub |-> Some("denis"), exp |-> 0]

BearerInputs == {None, Some(GoodToken), Some(ExpiredToken)}

(* tokens that fail the other checks of get_current_user: signed with      *)
(* another key, without a "sub" claim, naming a user that does not exist   *)
BadKeyToken == [GoodToken EXCEPT !.key = "another-key"]
NoSubToken == [GoodToken EXCEPT !.sub = None]
UnknownUserToken == [GoodToken EXCEPT !.sub = Some("mallory")]

RejectedBearerInputs ==
    {Some(BadKeyToken), Some(NoSubToken), Some(UnknownUserToken)}

UpdateA ==
    [topic |-> "Python", hours_spent |-> 1002, difficulty_level |-> 3,
     notes |-> "Learning FastAPI testing", understanding_level |-> 8,
     questions |-> Some(<<"q1", "q2">>)]

UpdateB ==
    [topic |-> "Docker", hours_spent |-> 1004, difficulty_level |-> 5,
     notes |-> "ten chars!", understanding_level |-> 1,
     questions |-> None]

InvalidUpdateInputs ==
    {[UpdateA EXCEPT !.topic = "Rust"]}
    \cup {[UpdateA EXCEPT !.hours_spent = h] : h \in {0, 24 * 1000}}
    \cup {[UpdateA EXCEPT !.difficulty_level = d] : d \in {0, 6}}
    \cup {[UpdateA EXCEPT !.notes = "too short"]}
    \cup {[UpdateA EXCEPT !.understanding_level = u] : u \in {0, 11}}

UpdateInputs == {UpdateA, UpdateB} \cup InvalidUpdateInputs

(* the add-progress requests: every bearer with the valid bodies, the      *)
(* accepted bearer with every body, and one invalid body without a bearer  *)
AddInputs ==
    (BearerInputs \X {UpdateA, UpdateB})
    \cup ({Some(GoodToken)} \X UpdateInputs)
    \cup {<<None, [UpdateA EXCEPT !.notes = "too short"]>>}

----------------------------------------------------------------------------
(* Initial state: init_db() on a new database file *)

Init ==
    /\ table = <<>>
    /\ seq = 0
    /\ clock = 0
    /\ last = Blank
    /\ issued = <<>>
    /\ deleted = {}

(* Time passes between requests *)
Tick ==
    /\ clock < MaxClock
    /\ clock' = clock + 1
    /\ UNCHANGED <<table, seq, last, issued, deleted>>

----------------------------------------------------------------------------
(* POST /add-progress *)

(* InsertRow with difficulty_level and understanding_level bound to each   *)
(* other's column                                                          *)
InsertRow_Swapped(update, new_id, now) ==
    [id |-> new_id,
     topic |-> update.topic,
     hours_spent |-> update.hours_spent,
     difficulty_level |-> update.understanding_level,
     notes |-> update.notes,
     understanding_level |-> update.difficulty_level,
     questions |-> Some(json_dumps(update.questions)),
     timestamp |-> now]

InsertRow(update, new_id, now) ==
    [id |-> new_id,
     topic |-> update.topic,
     hours_spent |-> update.hours_spent,
     difficulty_level |-> update.difficulty_level,
     notes |-> update.notes,
     understanding_level |-> update.understanding_level,
     questions |-> Some(json_dumps(update.questions)),
     timestamp |-> now]

(* AddData with a null questions field reported as an empty list *)
AddData_NullAsEmpty(update, new_id) ==
    [id |-> new_id,
     topic |-> update.topic,
     hours_spent |-> update.hours_spent,
     difficulty_level |-> update.difficulty_level,
     notes |-> update.notes,
     understanding_level |-> update.understanding_level,
     questions |-> IF IsNone(update.questions) THEN Some(<<>>)
                   ELSE update.questions]

(* {**update.model_dump(), "id": new_id} *)
AddData(update, new_id) ==
    [id |-> new_id,
     topic |-> update.topic,
     hours_spent |-> update.hours_spent,
     difficulty_level |-> update.difficulty_level,
     notes |-> update.notes,
     understanding_level |-> update.understanding_level,
     questions |-> update.questions]

add_learning_progress(bearer, update) ==
    LET req == [Blank EXCEPT !.op = "add", !.bearer = bearer,
                             !.update = Some(update)]
        new_id == NextRowid(table, seq)
    IN
    IF IsNone(bearer) THEN
        \* oauth2_scheme: no Authorization header
        /\ last' = [req EXCEPT !.status = 401, !.detail = "Not authenticated"]
        /\ UNCHANGED <<table, seq, clock, issued, deleted>>
    ELSE IF IsNone(get_current_user(Get(bearer), clock)) THEN
        /\ last' = [req EXCEPT !.status = 401,
                               !.detail = "Could not validate credential"]
        /\ UNCHANGED <<table, seq, clock, issued, deleted>>
    ELSE IF ~LearningUpdateValid(update) THEN
        \* the body does not validate as LearningUpdate
        /\ last' = [req EXCEPT !.status = 422,
                               !.detail = "RequestValidationError"]
        /\ UNCHANGED <<table, seq, clock, issued, deleted>>
    ELSE
        /\ seq < MaxId
        /\ table' = Append(table, InsertRow(update, new_id, clock))
        /\ seq' = new_id
        /\ issued' = Append(issued, new_id)
        /\ last' = [req EXCEPT !.status = 200,
                               !.message = "Progress updated successfully!",
                               !.data = <<AddData(update, new_id)>>]
        /\ UNCHANGED <<clock, deleted>>

AddProgress ==
    \E req \in AddInputs : add_learning_progress(req[1], req[2])

----------------------------------------------------------------------------
(* PUT /update-progress/{entry_id} *)

EmptyPatch == [f \in {} |-> None]

(* bodies that validate as LearningUpdatePatch *)
PatchInputs ==
    {EmptyPatch,
     [hours_spent |-> Some(3000),
      notes |-> Some("Updated learning session notes")],
     [questions |-> None],
     [topic |-> None],
     [hours_spent |-> Some(3000), notes |-> None]}

(* bodies that do not *)
InvalidPatchInputs ==
    {[topic |-> Some("Rust")],
     [hours_spent |-> Some(0)],
     [difficulty_level |-> Some(6)],
     [notes |-> Some("too short")],
     [understanding_level |-> Some(11)]}

EntryIdInputs == 1..MaxId

(* the update-progress requests: every id with the valid bodies, and the   *)
(* first id with the invalid ones                                          *)
UpdateRequestInputs ==
    (EntryIdInputs \X PatchInputs) \cup ({1} \X InvalidPatchInputs)

(* the columns declared NOT NULL by init_db *)
NotNullColumns ==
    {"topic", "hours_spent", "difficulty_level", "notes",
     "understanding_level", "timestamp"}

(* update_dict after the questions list has been replaced by its JSON text: *)
(* the value bound to column f                                              *)
BoundValue(p, f) ==
    IF f = "questions" THEN Some(json_dumps(p[f])) ELSE p[f]

(* UPDATE learning_updates SET <the keys of update_dict> WHERE id = ?      *)
(* fails as a whole when a NOT NULL column would become NULL               *)
IntegrityError(p) ==
    \E f \in DOMAIN p : f \in NotNullColumns /\ IsNone(BoundValue(p, f))

(* UpdatedRow that also stamps the row with the time of the update *)
UpdatedRow_Touch(row, p) ==
    [f \in DOMAIN row |->
        IF f = "timestamp" THEN clock
        ELSE IF f \in DOMAIN p
        THEN IF f = "questions" THEN BoundValue(p, f) ELSE Get(BoundValue(p, f))
        ELSE row[f]]

UpdatedRow(row, p) ==
    [f \in DOMAIN row |->
        IF f \in DOMAIN p
        THEN IF f = "questions" THEN BoundValue(p, f) ELSE Get(BoundValue(p, f))
        ELSE row[f]]

ReplaceRow(t, id, new) ==
    [i \in 1..Len(t) |-> IF t[i].id = id THEN new ELSE t[i]]

(* FailedUpdate that keeps the columns set before the failing one *)
FailedUpdate_Partial(t, id, p) ==
    LET applied == {f \in DOMAIN p : ~IsNone(BoundValue(p, f))} IN
    ReplaceRow(t, id, UpdatedRow(RowOf(t, id), [f \in applied |-> p[f]]))

(* the table after an UPDATE that raised: SQLite undoes the statement, the *)
(* handler never reaches conn.commit() and the connection is closed        *)
FailedUpdate(t, id, p) == t

(* UpdateExceptStatus when the handler's own HTTPException passes through *)
UpdateExceptStatus_PassThrough == 404

(* except Exception as e: raise HTTPException(status_code=400, ...): every  *)
(* exception of the try body, the handler's own HTTPException(404)         *)
(* included, leaves as 400                                                 *)
UpdateExceptStatus == 400

update_learning_progress(entry_id, p) ==
    LET req == [Blank EXCEPT !.op = "update", !.entry_id = entry_id,
                             !.patch = Some(p)]
    IN
    IF ~LearningUpdatePatchValid(p) THEN
        \* the body does not validate as LearningUpdatePatch
        /\ last' = [req EXCEPT !.status = 422,
                               !.detail = "RequestValidationError"]
        /\ UNCHANGED <<table, seq, clock, issued, deleted>>
    ELSE IF entry_id \notin Ids(table) THEN
        \* HTTPException(404) raised inside try, caught by except Exception
        /\ last' = [req EXCEPT !.status = UpdateExceptStatus,
                               !.detail = "404: Entry not found"]
        /\ UNCHANGED <<table, seq, clock, issued, deleted>>
    ELSE IF DOMAIN p = {} THEN
        \* HTTPException(404) raised inside try, caught by except Exception
        /\ last' = [req EXCEPT !.status = UpdateExceptStatus,
                               !.detail = "404: No fields to update"]
        /\ UNCHANGED <<table, seq, clock, issued, deleted>>
    ELSE IF IntegrityError(p) THEN
        \* sqlite3.IntegrityError, caught by except Exception; no commit
        /\ last' = [req EXCEPT !.status = UpdateExceptStatus,
                               !.detail = "NOT NULL constraint failed"]
        /\ table' = FailedUpdate(table, entry_id, p)
        /\ UNCHANGED <<seq, clock, issued, deleted>>
    ELSE
        \* UPDATE, commit, then SELECT the row again for the response
        /\ table' = ReplaceRow(table, entry_id,
                               UpdatedRow(RowOf(table, entry_id), p))
        /\ last' = [req EXCEPT !.status = 200,
                               !.message = "Progress update successfully!",
                               !.data = <<Entry(RowOf(table', entry_id))>>]
        /\ UNCHANGED <<seq, clock, issued, deleted>>

UpdateProgress ==
    \E req \in UpdateRequestInputs : update_learning_progress(req[1], req[2])

----------------------------------------------------------------------------
(* DELETE /delete-progress/{entry_id} *)

(* DELETE without its WHERE clause *)
DeleteRow_All(t, id) == <<>>

(* DELETE that is never committed *)
DeleteRow_NoCommit(t, id) == t

DeleteRow(t, id) == SelectSeq(t, LAMBDA r : r.id # id)

(* except Exception as e: raise HTTPException(status_code=404, ...) *)
DeleteExceptStatus == 404

delete_learning_progress(entry_id) ==
    LET req == [Blank EXCEPT !.op = "delete", !.entry_id = entry_id] IN
    IF entry_id \notin Ids(table) THEN
        \* HTTPException(404) raised inside try, re-raised as 404 by except
        /\ last' = [req EXCEPT !.status = DeleteExceptStatus,
                               !.detail = "404: Entry form not found"]
        /\ UNCHANGED <<table, seq, clock, issued, deleted>>
    ELSE
        /\ table' = DeleteRow(table, entry_id)
        /\ deleted' = deleted \cup {entry_id}
        /\ last' = [req EXCEPT !.status = 200,
                               !.message = "Entry " \o ToString(entry_id)
                                           \o " deleted successfully !",
                               !.deleted_id = entry_id]
        /\ UNCHANGED <<seq, clock, issued>>

DeleteProgress ==
    \E entry_id \in EntryIdInputs : delete_learning_progress(entry_id)

----------------------------------------------------------------------------
(* GET /view-progress *)

Entries(t) == [i \in 1..Len(t) |-> Entry(t[i])]

(* view_all_progress that writes the time of reading into the rows it     *)
(* returns                                                                 *)
view_all_progress_Touch ==
    /\ table' = [i \in 1..Len(table) |-> [table[i] EXCEPT !.timestamp = clock]]
    /\ last' = [Blank EXCEPT
                  !.op = "view", !.status = 200,
                  !.total_entries = Len(table),
                  !.total_hours =
                      SumSeq([i \in 1..Len(table) |-> table[i].hours_spent]),
                  !.data = Entries(table')]
    /\ UNCHANGED <<seq, clock, issued, deleted>>

view_all_progress ==
    LET entries == Entries(table) IN
    /\ last' = [Blank EXCEPT
                  !.op = "view", !.status = 200,
                  !.total_entries = Len(entries),
                  !.total_hours =
                      SumSeq([i \in 1..Len(entries) |-> entries[i].hours_spent]),
                  !.data = entries]
    /\ UNCHANGED <<table, seq, clock, issued, deleted>>

ViewProgress == view_all_progress

----------------------------------------------------------------------------
(* GET /analytics/learning-summary *)

(* the nearest integer to n / d, halves to the even neighbour (round()) *)
RoundDiv(n, d) ==
    LET q == n \div d
        r == n % d
    IN IF 2 * r < d THEN q
       ELSE IF 2 * r > d THEN q + 1
       ELSE IF q % 2 = 0 THEN q ELSE q + 1

(* round(x, 2) of a number of hours, in thousandths *)
Round2(x) == 10 * RoundDiv(x, 10)

(* float(v) raises ValueError or TypeError: the column holds a text that   *)
(* is no number, or NULL. Rows written by the handlers hold numbers; a row *)
(* written to the database file by other means names, in `unreadable`,     *)
(* the columns in which it holds something else                            *)
FloatRaises(row, col) ==
    "unreadable" \in DOMAIN row /\ col \in row.unreadable

(* ReadableRows with only the conversion of hours guarded *)
ReadableRows_HoursOnly(rows) ==
    SelectSeq(rows, LAMBDA r : ~FloatRaises(r, "hours_spent"))

(* the rows the loop over all_data does not leave by `continue` *)
ReadableRows(rows) ==
    SelectSeq(rows, LAMBDA r : /\ ~FloatRaises(r, "hours_spent")
                               /\ ~FloatRaises(r, "understanding_level"))

(* the keys of the topics dict, in the order the loop first meets them *)
RECURSIVE TopicKeys(_)
TopicKeys(rows) ==
    IF rows = <<>> THEN <<>>
    ELSE LET init == TopicKeys(SubSeq(rows, 1, Len(rows) - 1))
             t == rows[Len(rows)].topic
         IN IF t \in Range(init) THEN init ELSE Append(init, t)

(* topics[topic] after the loop over the rows that are not skipped *)
TopicTotals(rows, topic) ==
    LET mine == SelectSeq(rows, LAMBDA r : r.topic = topic) IN
    [total_hours |-> SumSeq([i \in 1..Len(mine) |-> mine[i].hours_spent]),
     sessions |-> Len(mine),
     total_understanding |->
         SumSeq([i \in 1..Len(mine) |-> mine[i].understanding_level])]

(* TopicStat with the average taken over all rows instead of the topic's *)
TopicStat_OverAllRows(rows, topic) ==
    LET stats == TopicTotals(rows, topic) IN
    [topic |-> topic,
     total_hours |-> Round2(stats.total_hours),
     number_of_sessions |-> stats.sessions,
     average_understanding |->
         IF stats.sessions > 0
         THEN RoundDiv(100 * stats.total_understanding, Len(rows))
         ELSE 0]

(* one element of topic_stats; average_understanding in hundredths *)
TopicStat(rows, topic) ==
    LET stats == TopicTotals(rows, topic) IN
    [topic |-> topic,
     total_hours |-> Round2(stats.total_hours),
     number_of_sessions |-> stats.sessions,
     average_understanding |->
         IF stats.sessions > 0
         THEN RoundDiv(100 * stats.total_understanding, stats.sessions)
         ELSE 0]

(* sort ascending, then reverse the list: equal keys end up reversed *)
RECURSIVE SortByHoursDesc_Reversed(_)
SortByHoursDesc_Reversed(xs) ==
    IF xs = <<>> THEN <<>>
    ELSE LET rest == SortByHoursDesc_Reversed(Tail(xs))
             before == SelectSeq(rest, LAMBDA y : y.total_hours >= xs[1].total_hours)
             after == SelectSeq(rest, LAMBDA y : y.total_hours < xs[1].total_hours)
         IN before \o <<xs[1]>> \o after

(* list.sort(key=total_hours, reverse=True): stable, equal keys keep their *)
(* order                                                                   *)
RECURSIVE SortByHoursDesc(_)
SortByHoursDesc(xs) ==
    IF xs = <<>> THEN <<>>
    ELSE LET rest == SortByHoursDesc(Tail(xs))
             before == SelectSeq(rest, LAMBDA y : y.total_hours > xs[1].total_hours)
             after == SelectSeq(rest, LAMBDA y : y.total_hours <= xs[1].total_hours)
         IN before \o <<xs[1]>> \o after

(* topic_stats[0]['topic'] without the guard: IndexError on an empty list *)
MostStudiedTopic_Unguarded(topic_stats) ==
    IF topic_stats # <<>>
    THEN [raised |-> FALSE, value |-> Some(topic_stats[1].topic)]
    ELSE [raised |-> TRUE, value |-> None]

(* topic_stats[0]['topic'] if topic_stats else None; raised tells whether   *)
(* the expression raises (it never does: the index is guarded)             *)
MostStudiedTopic(topic_stats) ==
    IF topic_stats # <<>>
    THEN [raised |-> FALSE, value |-> Some(topic_stats[1].topic)]
    ELSE [raised |-> FALSE, value |-> None]

(* LearningSummary with total_hours added up from the per-topic totals *)
LearningSummary_FromTopicTotals(rows) ==
    LET kept == ReadableRows(rows)
        keys == TopicKeys(kept)
        topic_stats ==
            SortByHoursDesc([i \in 1..Len(keys) |-> TopicStat(kept, keys[i])])
        total_hours ==
            SumSeq([i \in 1..Len(topic_stats) |-> topic_stats[i].total_hours])
        most == MostStudiedTopic(topic_stats)
    IN [raised |-> most.raised,
        summary |->
            [total_entries |-> Len(rows),
             total_hours |-> Round2(total_hours),
             unique_topics |-> Len(keys),
             most_studied_topic |-> most.value],
        topic_statistics |-> topic_stats]

LearningSummary(rows) ==
    LET kept == ReadableRows(rows)
        keys == TopicKeys(kept)
        topic_stats ==
            SortByHoursDesc([i \in 1..Len(keys) |-> TopicStat(kept, keys[i])])
        total_hours == SumSeq([i \in 1..Len(kept) |-> kept[i].hours_spent])
        most == MostStudiedTopic(topic_stats)
    IN [raised |-> most.raised,
        summary |->
            [total_entries |-> Len(rows),
             total_hours |-> Round2(total_hours),
             unique_topics |-> Len(keys),
             most_studied_topic |-> most.value],
        topic_statistics |-> topic_stats]

get_learning_summary ==
    LET result == LearningSummary(table) IN
    /\ IF result.raised THEN
           \* except Exception as e: raise HTTPException(status_code=404, ...)
           last' = [Blank EXCEPT
                      !.op = "summary", !.status = 404,
                      !.detail = "Error receiving learning summary"]
       ELSE
           last' = [Blank EXCEPT
                      !.op = "summary", !.status = 200,
                      !.summary = Some(result.summary),
                      !.topic_statistics = result.topic_statistics]
    /\ UNCHANGED <<table, seq, clock, issued, deleted>>

Summary == get_learning_summary

----------------------------------------------------------------------------

Next ==
    \/ Tick
    \/ AddProgress
    \/ UpdateProgress
    \/ DeleteProgress
    \/ ViewProgress
    \/ Summary

Spec == Init /\ [][Next]_vars

----------------------------------------------------------------------------
(* learning-summary over the tables the handlers can build: up to          *)
(* MaxSummaryRows records, each inserted from one of SummaryBodies          *)

MaxSummaryRows == 3

SummaryBodies ==
    {[UpdateA EXCEPT !.topic = t, !.hours_spent = h, !.understanding_level = u] :
        t \in {"Python", "Docker", "AI"}, h \in {1000, 1004, 2000}, u \in {8, 6}}

SummaryTable(bodies) == [i \in 1..Len(bodies) |-> InsertRow(bodies[i], i, 0)]

InitSummary ==
    /\ \E n \in 0..MaxSummaryRows : \E bodies \in [1..n -> SummaryBodies] :
           table = SummaryTable(bodies)
    /\ seq = Len(table)
    /\ clock = 0
    /\ last = Blank
    /\ issued = [i \in 1..Len(table) |-> i]
    /\ deleted = {}

NextSummary == Summary

SpecSummary == InitSummary /\ [][NextSummary]_vars

----------------------------------------------------------------------------
(* GET /view-progress/by-topic/{topic} *)

(* the path parameter is a plain str: any text is taken *)
TopicInputs == {"Python", "Docker", "Rust"}

(* rows with equal timestamps come in an order SQL leaves open; the two    *)
(* orders a scan of the table can give are by rowid upwards and downwards  *)
TieOrders == {"asc", "desc"}

Reverse(s) == [i \in 1..Len(s) |-> s[Len(s) + 1 - i]]

(* NewestStamp for ORDER BY timestamp ASC *)
NewestStamp_Oldest(rows) ==
    LET stamps == {rows[i].timestamp : i \in 1..Len(rows)} IN
    CHOOSE m \in stamps : \A x \in stamps : m <= x

(* the timestamp ORDER BY timestamp DESC puts first *)
NewestStamp(rows) == SetMax({rows[i].timestamp : i \in 1..Len(rows)})

(* ORDER BY timestamp DESC of rows scanned in rowid order (the order the   *)
(* table keeps them in)                                                    *)
RECURSIVE OrderByTimestampDesc(_, _)
OrderByTimestampDesc(rows, tie) ==
    IF rows = <<>> THEN <<>>
    ELSE LET m == NewestStamp(rows)
             top == SelectSeq(rows, LAMBDA r : r.timestamp = m)
             rest == SelectSeq(rows, LAMBDA r : r.timestamp # m)
         IN (IF tie = "asc" THEN top ELSE Reverse(top))
                \o OrderByTimestampDesc(rest, tie)

(* LIMIT n *)
Limit(rows, n) == SubSeq(rows, 1, IF Len(rows) < n THEN Len(rows) ELSE n)

(* SELECT * FROM learning_updates WHERE topic = ?                          *)
(* ORDER BY timestamp DESC LIMIT 5                                         *)
SelectRecent(t, topic, tie) ==
    Limit(OrderByTimestampDesc(SelectSeq(t, LAMBDA r : r.topic = topic), tie),
          5)

(* except Exception as e: raise HTTPException(status_code=400, ...): the    *)
(* handler's own HTTPException(404) leaves as 400                          *)
ByTopicExceptStatus == 400

get_progress_by_topic(topic, tie) ==
    LET req == [Blank EXCEPT !.op = "by_topic", !.topic = topic]
        rows == SelectRecent(table, topic, tie)
        entries == Entries(rows)
        total_hours == SumSeq([i \in 1..Len(rows) |-> rows[i].hours_spent])
        total_difficulty ==
            SumSeq([i \in 1..Len(rows) |-> rows[i].difficulty_level])
    IN
    /\ IF rows = <<>> THEN
           \* HTTPException(404) raised inside try, caught by except Exception
           last' = [req EXCEPT !.status = ByTopicExceptStatus,
                               !.detail = "404: No entries found for topic"]
       ELSE
           \* average_difficulty in hundredths
           last' = [req EXCEPT !.status = 200,
                               !.recent_entries = Len(entries),
                               !.total_hours = Round2(total_hours),
                               !.average_difficulty =
                                   RoundDiv(100 * total_difficulty,
                                            Len(entries)),
                               !.data = entries]
    /\ UNCHANGED <<table, seq, clock, issued, deleted>>

ByTopic ==
    \E topic \in TopicInputs, tie \in TieOrders :
        get_progress_by_topic(topic, tie)

----------------------------------------------------------------------------
(* by-topic over the tables the handlers can build: up to MaxRecentRows    *)
(* records, each inserted from one of RecentBodies, at times that never go *)
(* back; by-topic only reads, so one request on each table reaches every   *)
(* response                                                                *)

MaxRecentRows == 6

RecentBodies == {UpdateA, UpdateB}

(* the time of the i-th insert when the clock moves on after cut[c] inserts *)
StampOf(cut, i) == Cardinality({c \in DOMAIN cut : cut[c] < i})

RecentTable(bodies, cut) ==
    [i \in 1..Len(bodies) |-> InsertRow(bodies[i], i, StampOf(cut, i))]

InitRecent ==
    /\ \E n \in 0..MaxRecentRows :
           \E bodies \in [1..n -> RecentBodies], cut \in [1..MaxClock -> 0..n] :
               table = RecentTable(bodies, cut)
    /\ seq = Len(table)
    /\ clock = MaxClock
    /\ last = Blank
    /\ issued = [i \in 1..Len(table) |-> i]
    /\ deleted = {}

NextRecent == last.op = "start" /\ ByTopic

SpecRecent == InitRecent /\ [][NextRecent]_vars

----------------------------------------------------------------------------
(* learning-summary over a database file that other programs have written  *)
(* to: rows as the handlers insert them, and rows that hold a text or NULL *)
(* where hours_spent or understanding_level should be                      *)

MalformedBodies ==
    {UpdateA, UpdateB,
     [UpdateA EXCEPT !.hours_spent = 2000, !.understanding_level = 6]}

(* the row with the columns in cols holding no number; what the model      *)
(* keeps in those columns is never read                                    *)
Malformed(row, cols) ==
    IF cols = {} THEN row
    ELSE [f \in DOMAIN row \cup {"unreadable"} |->
             IF f = "unreadable" THEN cols ELSE row[f]]

UnreadableInputs == {{}, {"hours_spent"}, {"understanding_level"}}

InitMalformed ==
    /\ \E n \in 0..MaxSummaryRows :
           \E bodies \in [1..n -> MalformedBodies],
              cols \in [1..n -> UnreadableInputs] :
               table = [i \in 1..n |->
                           Malformed(InsertRow(bodies[i], i, 0), cols[i])]
    /\ seq = Len(table)
    /\ clock = 0
    /\ last = Blank
    /\ issued = [i \in 1..Len(table) |-> i]
    /\ deleted = {}

NextMalformed == Summary

SpecMalformed == InitMalformed /\ [][NextMalformed]_vars

----------------------------------------------------------------------------
(* delete-progress requests handled at the same time: the handler is a     *)
(* plain def, which FastAPI runs in a thread pool, each request on its own *)
(* connection. The SELECT of the existence check is one step, the DELETE   *)
(* with its commit another (SQLite lets one writer in at a time); nothing  *)
(* holds the two together.                                                 *)

MaxRequests == 2

DeleteBodies == {UpdateA, UpdateB}

InitDelete ==
    /\ \E n \in 0..MaxId : \E bodies \in [1..n -> DeleteBodies] :
           table = [i \in 1..n |-> InsertRow(bodies[i], i, 0)]
    /\ seq = Len(table)
    /\ clock = 0
    /\ \E ids \in [1..MaxRequests -> EntryIdInputs] :
           last = [Blank EXCEPT
                     !.op = "concurrent_delete",
                     !.requests =
                         [i \in 1..MaxRequests |->
                             [entry_id |-> ids[i], pc |-> "check",
                              status |-> 0, detail |-> ""]]]
    /\ issued = [i \in 1..Len(table) |-> i]
    /\ deleted = {}

(* SELECT * FROM learning_updates WHERE id = ?; if not cursor.fetchone():  *)
(* raise HTTPException(404), which the except clause answers               *)
DeleteCheck(i) ==
    LET req == last.requests[i] IN
    /\ req.pc = "check"
    /\ last' = [last EXCEPT !.requests[i] =
                  IF req.entry_id \in Ids(table)
                  THEN [req EXCEPT !.pc = "found"]
                  ELSE [req EXCEPT !.pc = "done",
                                   !.status = DeleteExceptStatus,
                                   !.detail = "404: Entry form not found"]]
    /\ UNCHANGED <<table, seq, clock, issued, deleted>>

(* DELETE FROM learning_updates WHERE id = ?; conn.commit(); return: the   *)
(* number of rows deleted is not looked at                                 *)
DeleteCommit(i) ==
    LET req == last.requests[i] IN
    /\ req.pc = "found"
    /\ table' = DeleteRow(table, req.entry_id)
    /\ deleted' = deleted \cup {req.entry_id}
    /\ last' = [last EXCEPT !.requests[i] =
                  [req EXCEPT !.pc = "done", !.status = 200]]
    /\ UNCHANGED <<seq, clock, issued>>

NextDelete ==
    \E i \in 1..MaxRequests :
        \/ DeleteCheck(i)
        \/ DeleteCommit(i)

SpecDelete == InitDelete /\ [][NextDelete]_vars

----------------------------------------------------------------------------
(* the three read-only requests, in any order, over the same tables *)

NextRead ==
    \/ ViewProgress
    \/ Summary
    \/ ByTopic

SpecRead == InitRecent /\ [][NextRead]_vars

----------------------------------------------------------------------------
(* POST /token and the token check *)

ACCESS_TOKEN_EXPIRE_MINUTES == 30

(* timedelta(minutes=m), in seconds *)
timedelta(m) == 60 * m

(* pwd_context.hash: the hash stands for the password it was made from *)
pwd_hash(p) == [scheme |-> "bcrypt", of |-> p]

(* the entry of fake_users_db under a name it holds *)
UserInDB(username) ==
    [username |-> username, hashed_password |-> pwd_hash("testpassword123"),
     disabled |-> FALSE]

verify_password(plain_password, hashed_password) ==
    hashed_password = pwd_hash(plain_password)

get_user(db, username) ==
    IF username \in db THEN Some(UserInDB(username)) ELSE None

(* authenticate_user that does not look at the password *)
authenticate_user_NoPassword(db, username, password) ==
    get_user(db, username)

(* the user, or None where the code returns False *)
authenticate_user(db, username, password) ==
    LET user == get_user(db, username) IN
    IF IsNone(user) THEN None
    ELSE IF ~verify_password(password, Get(user).hashed_password) THEN None
    ELSE user

(* create_access_token with a default lifetime of 30 minutes *)
create_access_token_LongDefault(data, expires_delta, now) ==
    [key |-> SECRET_KEY, sub |-> data.sub,
     exp |-> IF ~IsNone(expires_delta) /\ Get(expires_delta) # 0
             THEN now + Get(expires_delta)
             ELSE now + timedelta(30)]

(* jwt.encode of data and "exp"; `if expires_delta:` is false for None and *)
(* for a timedelta of zero                                                 *)
create_access_token(data, expires_delta, now) ==
    [key |-> SECRET_KEY, sub |-> data.sub,
     exp |-> IF ~IsNone(expires_delta) /\ Get(expires_delta) # 0
             THEN now + Get(expires_delta)
             ELSE now + timedelta(15)]

(* the form of a login: a field that is missing is None *)
LoginInputs ==
    {Some("denis"), Some("mallory"), None}
        \X {Some("testpassword123"), Some("testpassword"), None}

login_for_access_token(username, password) ==
    LET req == [Blank EXCEPT !.op = "login", !.username = username,
                             !.password = password]
        user == authenticate_user(fake_users_db, Get(username), Get(password))
    IN
    /\ IF IsNone(username) \/ IsNone(password) THEN
           \* OAuth2PasswordRequestForm: both fields are required
           last' = [req EXCEPT !.status = 422,
                               !.detail = "RequestValidationError"]
       ELSE IF IsNone(user) THEN
           last' = [req EXCEPT !.status = 401,
                               !.detail = "Incorrect username or password"]
       ELSE
           last' = [req EXCEPT
                      !.status = 200,
                      !.access_token =
                          Some(create_access_token(
                                   [sub |-> Some(Get(user).username)],
                                   Some(timedelta(ACCESS_TOKEN_EXPIRE_MINUTES)),
                                   clock)),
                      !.token_type = "bearer"]
    /\ UNCHANGED <<table, seq, clock, issued, deleted>>

Login ==
    \E form \in LoginInputs : login_for_access_token(form[1], form[2])

(* a call of create_access_token by itself *)
CreateTokenInputs ==
    {Some("denis"), Some("mallory"), None}
        \X {None, Some(0), Some(timedelta(1))}

CreateAccessToken ==
    \E call \in CreateTokenInputs :
        /\ last' = [Blank EXCEPT
                      !.op = "create_token", !.expires_delta = call[2],
                      !.access_token =
                          Some(create_access_token([sub |-> call[1]], call[2],
                                                   clock))]
        /\ UNCHANGED <<table, seq, clock, issued, deleted>>

(* oauth2_scheme and get_current_user, as FastAPI resolves them for a      *)
(* request that depends on them                                            *)
current_user(bearer) ==
    LET req == [Blank EXCEPT !.op = "current_user", !.bearer = bearer] IN
    /\ IF IsNone(bearer) THEN
           last' = [req EXCEPT !.status = 401, !.detail = "Not authenticated"]
       ELSE IF IsNone(get_current_user(Get(bearer), clock)) THEN
           last' = [req EXCEPT !.status = 401,
                               !.detail = "Could not validate credential"]
       ELSE
           last' = [req EXCEPT !.status = 200,
                               !.username = get_current_user(Get(bearer), clock)]
    /\ UNCHANGED <<table, seq, clock, issued, deleted>>

(* the bearers a client can send: the token it was given last, the one it  *)
(* sent last, or one of the tokens made elsewhere                          *)
CurrentUser ==
    \E bearer \in {last.access_token, last.bearer} \cup RejectedBearerInputs :
        current_user(bearer)

(* the moments the login specification looks at: every quarter of an hour  *)
(* up to MaxQuarterHours, and up to MaxClock seconds after each            *)
MaxQuarterHours == 2

LoginTimes ==
    {timedelta(15) * q + d : q \in 0..MaxQuarterHours, d \in 0..MaxClock}

TickLogin ==
    /\ \E t \in LoginTimes : t > clock /\ clock' = t
    /\ UNCHANGED <<table, seq, last, issued, deleted>>

NextLogin ==
    \/ TickLogin
    \/ Login
    \/ CreateAccessToken
    \/ CurrentUser

SpecLogin == Init /\ [][NextLogin]_vars

----------------------------------------------------------------------------
(* POST /token of auth_test.py, the authentication demo beside the service *)

auth_test_SECRET_KEY == "test-secret-key"

fake_user_db == {"testuser"}

(* the entry of fake_user_db under a name it holds *)
auth_test_UserInDB(username) ==
    [username |-> username, hashed_password |-> pwd_hash("testpassword"),
     disabled |-> FALSE]

auth_test_verify_password(plain_password, hashed_password) ==
    hashed_password = pwd_hash(plain_password)

auth_test_get_user(username) ==
    IF username \in fake_user_db THEN Some(auth_test_UserInDB(username))
    ELSE None

(* expire = utcnow() + (expires_delta or timedelta(minutes=15)) *)
auth_test_create_access_token(data, expires_delta, now) ==
    [key |-> auth_test_SECRET_KEY, sub |-> data.sub,
     exp |-> IF ~IsNone(expires_delta) /\ Get(expires_delta) # 0
             THEN now + Get(expires_delta)
             ELSE now + timedelta(15)]

AuthTestLoginInputs ==
    {Some("testuser"), Some("mallory"), None}
        \X {Some("testpassword"), Some("testpassword123"), None}

auth_test_login(username, password) ==
    LET req == [Blank EXCEPT !.op = "auth_test_login", !.username = username,
                             !.password = password]
        user == auth_test_get_user(Get(username))
    IN
    /\ IF IsNone(username) \/ IsNone(password) THEN
           \* OAuth2PasswordRequestForm: both fields are required
           last' = [req EXCEPT !.status = 422,
                               !.detail = "RequestValidationError"]
       ELSE IF IsNone(user) THEN
           last' = [req EXCEPT !.status = 400,
                               !.detail = "Incorect username or password"]
       ELSE IF ~auth_test_verify_password(Get(password),
                                          Get(user).hashed_password) THEN
           last' = [req EXCEPT !.status = 400,
                               !.detail = "Incorrect username or password"]
       ELSE
           last' = [req EXCEPT
                      !.status = 200,
                      !.access_token =
                          Some(auth_test_create_access_token(
                                   [sub |-> Some(Get(user).username)],
                                   Some(timedelta(30)),
                                   clock)),
                      !.token_type = "bearer"]
    /\ UNCHANGED <<table, seq, clock, issued, deleted>>

AuthTestLogin ==
    \E form \in AuthTestLoginInputs : auth_test_login(form[1], form[2])

(* logins at either program, one after another, as time passes *)
NextBothLogins ==
    \/ TickLogin
    \/ Login
    \/ AuthTestLogin

SpecBothLogins == Init /\ [][NextBothLogins]_vars

----------------------------------------------------------------------------
(* The store connection of one operation: sqlite3.connect, the statements  *)
(* of the body one after another, each of which may raise, and the way out *)

(* the statements an operation runs on its connection, in order: execute   *)
(* and commit raise sqlite3.Error when the store fails, a check raises the *)
(* HTTPException of the handler, close is an explicit conn.close()         *)
Stmts(op) ==
    CASE op = "init_db_at_import" -> <<"execute", "commit">>
      [] op = "init_db" -> <<"execute", "commit", "close">>
      [] op = "init_user_db" -> <<"execute", "commit">>
      [] op = "view" -> <<"execute">>
      [] op = "add" -> <<"execute", "commit">>
      [] op = "update" ->
            <<"execute", "check", "check", "execute", "commit", "execute">>
      [] op = "delete" -> <<"execute", "check", "execute", "commit">>
      [] op = "by_topic" -> <<"execute", "check">>
      [] op = "summary" -> <<"execute", "execute">>

(* init_db is defined twice: the first definition is the one the call at   *)
(* import runs, the second, at the end of the file, is the one the name    *)
(* means from then on (at startup)                                         *)
DbOperations ==
    {"init_db_at_import", "init_db", "init_user_db", "view", "add", "update",
     "delete", "by_topic", "summary"}

(* the operations whose body runs inside `with get_db_connection()` *)
UsesContextManager(op) == op # "init_db"

(* leaving get_db_connection, by return or by exception:                   *)
(* finally: conn.close()                                                   *)
get_db_connection(connections) == connections - 1

Call ==
    /\ last.pc \in {"idle", "done"}
    /\ \E op \in DbOperations :
           last' = [Blank EXCEPT !.op = op, !.pc = "connect"]
    /\ UNCHANGED <<table, seq, clock, issued, deleted>>

(* sqlite3.connect(...): a connection, or sqlite3.Error and none *)
Connect ==
    /\ last.pc = "connect"
    /\ \/ last' = [last EXCEPT !.pc = "body", !.stmt = 1, !.connections = 1]
       \/ last' = [last EXCEPT !.pc = "done", !.detail = "sqlite3.Error"]
    /\ UNCHANGED <<table, seq, clock, issued, deleted>>

(* the next statement of the body *)
Statement ==
    /\ last.pc = "body"
    /\ last.stmt <= Len(Stmts(last.op))
    /\ LET kind == Stmts(last.op)[last.stmt] IN
       \/ /\ kind = "close"
          /\ last' = [last EXCEPT !.stmt = @ + 1,
                                  !.connections = @ - 1]
       \/ /\ kind # "close"
          \* CREATE TABLE IF NOT EXIST of init_user_db is no SQL: it raises
          /\ ~(last.op = "init_user_db" /\ last.stmt = 1)
          /\ last' = [last EXCEPT !.stmt = @ + 1]
       \/ /\ kind \in {"execute", "commit"}
          /\ last' = [last EXCEPT !.pc = "raising",
                                  !.detail = "sqlite3.Error"]
       \/ /\ kind = "check"
          /\ last' = [last EXCEPT !.pc = "raising",
                                  !.detail = "HTTPException"]
    /\ UNCHANGED <<table, seq, clock, issued, deleted>>

(* the last statement is done: the body returns *)
Return ==
    /\ last.pc = "body"
    /\ last.stmt > Len(Stmts(last.op))
    /\ last' = [last EXCEPT !.pc = "returning"]
    /\ UNCHANGED <<table, seq, clock, issued, deleted>>

(* out of the with block, if there is one, and out of the operation *)
Exit ==
    /\ last.pc \in {"returning", "raising"}
    /\ last' = [last EXCEPT
                  !.pc = "done",
                  !.connections =
                      IF UsesContextManager(last.op)
                      THEN get_db_connection(@)
                      ELSE @]
    /\ UNCHANGED <<table, seq, clock, issued, deleted>>

NextConn ==
    \/ Call
    \/ Connect
    \/ Statement
    \/ Return
    \/ Exit

SpecConn == Init /\ [][NextConn]_vars

----------------------------------------------------------------------------
(* add-progress under every kind of bearer, with a valid and an invalid    *)
(* body, on tables that inserts and deletes build as time passes           *)

AuthAddInputs ==
    (BearerInputs \cup RejectedBearerInputs)
        \X {UpdateA, [UpdateA EXCEPT !.notes = "too short"]}

AddProgressAuth ==
    \E req \in AuthAddInputs : add_learning_progress(req[1], req[2])

NextAuth ==
    \/ Tick
    \/ AddProgressAuth
    \/ DeleteProgress

SpecAuth == Init /\ [][NextAuth]_vars

----------------------------------------------------------------------------
(* Properties *)

Accepted(bearer, now) ==
    ~IsNone(bearer) /\ ~IsNone(get_current_user(Get(bearer), now))

(* the field constraints of a learning record, as the data model states    *)
(* them (hours in thousandths)                                             *)
SatisfiesConstraints(u) ==
    /\ u.topic \in {"Python", "FastAPI", "Database", "Docker", "AI", "Django"}
    /\ 0 < u.hours_spent /\ u.hours_spent < 24000
    /\ u.difficulty_level \in 1..5
    /\ Len(u.notes) >= 10
    /\ u.understanding_level \in 1..10

SameFields(d, u) ==
    /\ d.topic = u.topic
    /\ d.hours_spent = u.hours_spent
    /\ d.difficulty_level = u.difficulty_level
    /\ d.notes = u.notes
    /\ d.understanding_level = u.understanding_level
    /\ d.questions = u.questions

AddSucceeded(r) ==
    /\ r.status = 200
    /\ Len(r.data) = 1
    /\ SameFields(r.data[1], Get(r.update))

C3_IdsStrictlyIncreasing ==
    /\ \A i \in 1..Len(issued) : \A j \in 1..Len(issued) :
           i < j => issued[i] < issued[j]
    /\ (last.op = "add" /\ last.status = 200)
           => last.data[1].id = issued[Len(issued)]

(* an insert into a table whose highest id has been deleted *)
C3_Witness ==
    /\ last.op = "add"
    /\ last.status = 200
    /\ Ids(table) = {2}
    /\ deleted = {1}
    /\ issued = <<1, 2>>

(* C4: a successful update-progress leaves every field that the body does  *)
(* not name as it was, id and timestamp included, reads every named field  *)
(* back as the body gave it, and touches no other record.                  *)
C4_UpdateChangesOnlyNamedFields ==
    [][(clock' = clock /\ last'.op = "update" /\ last'.status = 200)
        => LET id == last'.entry_id
               p == Get(last'.patch)
               old == RowOf(table, id)
               new == RowOf(table', id)
               shown == last'.data[1]
           IN /\ Ids(table') = Ids(table)
              /\ \A f \in DOMAIN old \ DOMAIN p : new[f] = old[f]
              /\ new.id = id /\ new.timestamp = old.timestamp
              /\ \A f \in DOMAIN p \ {"questions"} : shown[f] = Get(p[f])
              /\ "questions" \in DOMAIN p => shown.questions = p.questions
              /\ shown = Entry(new)
              /\ \A j \in Ids(table) \ {id} :
                     RowOf(table', j) = RowOf(table, j)]_vars

(* hours_spent and notes updated on one of two records, after the clock    *)
(* has moved on from its creation                                          *)
C4_Witness ==
    /\ last.op = "update"
    /\ last.status = 200
    /\ DOMAIN Get(last.patch) = {"hours_spent", "notes"}
    /\ Len(table) = 2
    /\ last.data[1].topic = "Python"
    /\ last.data[1].timestamp < clock

(* C5: update-progress on an existing id with no field set is answered     *)
(* 400 with the no-fields error, and the table stays as it was.            *)
C5_EmptyUpdateIsNoOpError ==
    [][(/\ clock' = clock
        /\ last'.op = "update"
        /\ DOMAIN Get(last'.patch) = {}
        /\ last'.entry_id \in Ids(table))
        => /\ last'.status = 400
           /\ last'.detail = "404: No fields to update"
           /\ table' = table]_vars

C5_Witness ==
    /\ last.op = "update"
    /\ DOMAIN Get(last.patch) = {}
    /\ last.entry_id \in Ids(table)
    /\ last.status = 400

(* C6: delete-progress on an id in the table is answered 200 with that id  *)
(* as deleted_id and in the message, removes the record with that id and   *)
(* leaves every other record as it was.                                    *)
C6_DeleteRemovesExactlyOne ==
    [][(/\ clock' = clock
        /\ last'.op = "delete"
        /\ last'.entry_id \in Ids(table))
        => LET id == last'.entry_id IN
           /\ last'.status = 200
           /\ last'.deleted_id = id
           /\ last'.message = "Entry " \o ToString(id) \o " deleted successfully !"
           /\ Ids(table') = Ids(table) \ {id}
           /\ \A j \in Ids(table) \ {id} :
                  RowOf(table', j) = RowOf(table, j)]_vars

(* one of two records deleted *)
C6_Witness ==
    /\ last.op = "delete"
    /\ last.status = 200
    /\ last.deleted_id = 1
    /\ Ids(table) = {2}

(* C7: an id that has been deleted is in the table in no later state, and  *)
(* every later delete-progress of it is answered 404.                      *)
C7_DeletedStaysDeleted ==
    [][/\ \A id \in deleted' : id \notin Ids(table')
       /\ (/\ clock' = clock
           /\ last'.op = "delete"
           /\ last'.entry_id \in deleted)
           => /\ last'.status = 404
              /\ table' = table]_vars

(* a second delete of an id, with a record inserted after the first *)
C7_Witness ==
    /\ last.op = "delete"
    /\ last.status = 404
    /\ last.entry_id = 1
    /\ deleted = {1}
    /\ Ids(table) = {2}

Present == Range(issued) \ deleted

(* C8: view-progress is answered 200 with one entry for each record        *)
(* inserted and not deleted, each entry showing what the table holds for   *)
(* it (so what the insert or update handled just before returned);         *)
(* total_entries is the number of entries and total_hours the sum of       *)
(* their hours; with no record present all three are empty or zero.        *)
C8_ViewShowsTheStore ==
    [][(clock' = clock /\ last'.op = "view")
        => LET entries == last'.data IN
           /\ last'.status = 200
           /\ Len(entries) = Cardinality(Present)
           /\ {entries[i].id : i \in 1..Len(entries)} = Present
           /\ \A i \in 1..Len(entries) :
                  entries[i] = Entry(RowOf(table, entries[i].id))
           /\ last'.total_entries = Len(entries)
           /\ last'.total_hours =
                  SumSeq([i \in 1..Len(entries) |-> entries[i].hours_spent])
           /\ (last.op = "add" /\ last.status = 200)
                  => \E i \in 1..Len(entries) :
                         /\ entries[i].id = last.data[1].id
                         /\ SameFields(entries[i], Get(last.update))
           /\ (last.op = "update" /\ last.status = 200)
                  => \E i \in 1..Len(entries) : entries[i] = last.data[1]
           /\ Present = {}
                  => /\ entries = <<>>
                     /\ last'.total_entries = 0
                     /\ last'.total_hours = 0]_vars

(* a view after an insert, an update and a delete *)
C8_Witness ==
    /\ last.op = "view"
    /\ last.status = 200
    /\ deleted = {1}
    /\ last.total_entries = 1
    /\ last.total_hours = 3000
    /\ last.data[1].id = 2

(* C9: every row of the table satisfies the field constraints. *)
C9_StoredRecordsInRange ==
    \A i \in 1..Len(table) : SatisfiesConstraints(table[i])

(* a table holding an updated row *)
C9_Witness ==
    /\ Len(table) = 2
    /\ \E i \in 1..Len(table) :
           /\ table[i].hours_spent = 3000
           /\ table[i].notes = "Updated learning session notes"
    /\ last.op = "update"

(* C10: learning-summary on an empty table is answered 200 with            *)
(* total_entries 0, total_hours 0, unique_topics 0, no most-studied topic  *)
(* and an empty per-topic breakdown.                                       *)
C10_SummaryOfEmptyStore ==
    (last.op = "summary" /\ table = <<>>)
        => /\ last.status = 200
           /\ last.summary =
                  Some([total_entries |-> 0, total_hours |-> 0,
                        unique_topics |-> 0, most_studied_topic |-> None])
           /\ last.topic_statistics = <<>>

(* a summary of a table emptied by deletes *)
C10_Witness ==
    /\ last.op = "summary"
    /\ last.status = 200
    /\ table = <<>>
    /\ deleted = {1, 2}

----------------------------------------------------------------------------
(* Properties of learning-summary *)

TopicsPresent == {table[i].topic : i \in 1..Len(table)}

RowsOfTopic(topic) == SelectSeq(table, LAMBDA r : r.topic = topic)

HoursOfTopic(topic) ==
    LET mine == RowsOfTopic(topic) IN
    SumSeq([i \in 1..Len(mine) |-> mine[i].hours_spent])

UnderstandingOfTopic(topic) ==
    LET mine == RowsOfTopic(topic) IN
    SumSeq([i \in 1..Len(mine) |-> mine[i].understanding_level])

HoursOfAll == SumSeq([i \in 1..Len(table) |-> table[i].hours_spent])

Abs(x) == IF x < 0 THEN 0 - x ELSE x

(* r is x rounded to 2 decimals: the multiple of 10 thousandths nearest x *)
IsRounded2(r, x) == r % 10 = 0 /\ 2 * Abs(r - x) <= 10

(* one breakdown entry per topic present, none for any other topic *)
OneEntryPerTopic(stats) ==
    /\ {stats[i].topic : i \in 1..Len(stats)} = TopicsPresent
    /\ Len(stats) = Cardinality(TopicsPresent)

(* C11, as stated: one breakdown entry per topic present, whose session    *)
(* count is the number of the topic's records, whose total_hours is the    *)
(* sum of their hours and whose average_understanding is their mean.       *)
C11_TopicStatsExact ==
    last.op = "summary"
        => /\ last.status = 200
           /\ OneEntryPerTopic(last.topic_statistics)
           /\ \A i \in 1..Len(last.topic_statistics) :
                  LET st == last.topic_statistics[i] IN
                  /\ st.number_of_sessions = Len(RowsOfTopic(st.topic))
                  /\ st.total_hours = HoursOfTopic(st.topic)
                  /\ st.average_understanding * st.number_of_sessions
                         = 100 * UnderstandingOfTopic(st.topic)

(* C11, amended: one breakdown entry per topic present, whose session      *)
(* count is the number of the topic's records, whose total_hours is the    *)
(* sum of their hours rounded to 2 decimals and whose                      *)
(* average_understanding is their mean rounded to 2 decimals; the request  *)
(* is answered 200 (nothing is divided by zero).                           *)
C11_TopicStatsRounded ==
    last.op = "summary"
        => /\ last.status = 200
           /\ OneEntryPerTopic(last.topic_statistics)
           /\ \A i \in 1..Len(last.topic_statistics) :
                  LET st == last.topic_statistics[i]
                      n == Len(RowsOfTopic(st.topic))
                  IN /\ st.number_of_sessions = n
                     /\ n > 0
                     /\ IsRounded2(st.total_hours, HoursOfTopic(st.topic))
                     /\ 2 * Abs(st.average_understanding * n
                                - 100 * UnderstandingOfTopic(st.topic)) <= n

(* two sessions of 2.0 h and 1.0 h with levels 8 and 6 on one topic, and a *)
(* session on another                                                      *)
C11_Witness ==
    /\ last.op = "summary"
    /\ Len(table) = 3
    /\ \E i \in 1..Len(last.topic_statistics) :
           LET st == last.topic_statistics[i] IN
           /\ st.topic = "Python"
           /\ st.number_of_sessions = 2
           /\ st.total_hours = 3000
           /\ st.average_understanding = 700
    /\ Len(last.topic_statistics) = 2

(* C12: on a non-empty table the most_studied_topic is a topic whose sum   *)
(* of hours_spent, at full precision, no other topic exceeds.              *)
C12_MostStudiedHasLargestSum ==
    (last.op = "summary" /\ table # <<>>)
        => /\ last.status = 200
           /\ ~IsNone(Get(last.summary).most_studied_topic)
           /\ LET best == Get(Get(last.summary).most_studied_topic) IN
              /\ best \in TopicsPresent
              /\ \A t \in TopicsPresent : HoursOfTopic(t) <= HoursOfTopic(best)

(* alphabetical position of a topic name *)
NameRank(topic) ==
    CHOOSE k \in 1..6 :
        <<"AI", "Database", "Django", "Docker", "FastAPI", "Python">>[k] = topic

(* position of the first row of a topic *)
FirstRow(topic) ==
    CHOOSE i \in 1..Len(table) :
        /\ table[i].topic = topic
        /\ \A j \in 1..(i - 1) : table[j].topic # topic

SummaryCounts(r) ==
    LET sm == Get(r.summary)
        stats == r.topic_statistics
    IN /\ r.status = 200
       /\ sm.total_entries = Len(table)
       /\ sm.total_entries =
              SumSeq([i \in 1..Len(stats) |-> stats[i].number_of_sessions])
       /\ sm.unique_topics = Cardinality(TopicsPresent)
       /\ sm.unique_topics = Len(stats)

(* C14, as stated: total_entries is the number of records and the sum of   *)
(* the session counts, total_hours is the sum of all hours and the sum of  *)
(* the per-topic totals, unique_topics is the number of topics present and *)
(* the length of the breakdown.                                            *)
C14_TotalsExact ==
    last.op = "summary"
        => /\ SummaryCounts(last)
           /\ Get(last.summary).total_hours = HoursOfAll
           /\ Get(last.summary).total_hours =
                  SumSeq([i \in 1..Len(last.topic_statistics) |->
                             last.topic_statistics[i].total_hours])

(* C14, amended: total_entries is the number of records and the sum of the *)
(* session counts, total_hours is the sum of all hours rounded to 2        *)
(* decimals, unique_topics is the number of topics present and the length  *)
(* of the breakdown.                                                       *)
C14_TotalsRounded ==
    last.op = "summary"
        => /\ SummaryCounts(last)
           /\ IsRounded2(Get(last.summary).total_hours, HoursOfAll)

(* a summary whose total_hours is not the sum of its per-topic totals *)
C14_Witness ==
    /\ last.op = "summary"
    /\ Len(last.topic_statistics) = 2
    /\ Get(last.summary).total_entries = 2
    /\ Get(last.summary).total_hours = 2010
    /\ \A i \in 1..2 : last.topic_statistics[i].total_hours = 1000

----------------------------------------------------------------------------
(* Properties of the error answers *)

(* C15: update-progress with a well-formed body on an id that is not in    *)
(* the table is answered 404 (not found) and leaves the table as it was.   *)
C15_AbsentUpdateIsNotFound ==
    [][(/\ clock' = clock
        /\ last'.op = "update"
        /\ LearningUpdatePatchValid(Get(last'.patch))
        /\ last'.entry_id \notin Ids(table))
        => /\ last'.status = 404
           /\ table' = table]_vars

(* C16: by-topic for a topic that no row of the table has is answered 404  *)
(* (not found).                                                            *)
C16_AbsentTopicIsNotFound ==
    (last.op = "by_topic" /\ RowsOfTopic(last.topic) = <<>>)
        => last.status = 404

----------------------------------------------------------------------------
(* Properties of by-topic *)

(* C17: for a topic with at least one row, by-topic is answered 200 with   *)
(* at most 5 entries, each a different stored row of that topic, ordered   *)
(* by timestamp newest first; every row of the topic that is not returned  *)
(* has a timestamp no later than that of every returned entry;             *)
(* recent_entries is the number of entries returned.                       *)
C17_RecentEntriesOfTopic ==
    (last.op = "by_topic" /\ RowsOfTopic(last.topic) # <<>>)
        => LET got == last.data
               gotIds == {got[i].id : i \in 1..Len(got)}
               mine == RowsOfTopic(last.topic)
           IN /\ last.status = 200
              /\ Len(got) >= 1 /\ Len(got) <= 5
              /\ last.recent_entries = Len(got)
              /\ Cardinality(gotIds) = Len(got)
              /\ \A i \in 1..Len(got) :
                     /\ got[i].topic = last.topic
                     /\ \E k \in 1..Len(mine) :
                            /\ mine[k].id = got[i].id
                            /\ mine[k].timestamp = got[i].timestamp
                            /\ mine[k].hours_spent = got[i].hours_spent
              /\ \A i, j \in 1..Len(got) :
                     i < j => got[i].timestamp >= got[j].timestamp
              /\ \A k \in 1..Len(mine) :
                     mine[k].id \notin gotIds
                         => \A i \in 1..Len(got) :
                                mine[k].timestamp <= got[i].timestamp

(* six rows of one topic: five returned, the newest strictly newer than    *)
(* the oldest returned, and the row left out as old as the oldest returned *)
C17_Witness ==
    /\ last.op = "by_topic"
    /\ last.status = 200
    /\ Len(RowsOfTopic(last.topic)) = 6
    /\ Len(last.data) = 5
    /\ last.data[1].timestamp > last.data[5].timestamp
    /\ \E k \in 1..Len(table) :
           /\ table[k].topic = last.topic
           /\ table[k].id \notin {last.data[i].id : i \in 1..5}
           /\ table[k].timestamp = last.data[5].timestamp

DifficultyOfTopic(topic) ==
    LET mine == RowsOfTopic(topic) IN
    SumSeq([i \in 1..Len(mine) |-> mine[i].difficulty_level])

(* C18: the total_hours of by-topic is the sum of hours_spent over every   *)
(* row of the topic and average_difficulty the mean of their               *)
(* difficulty_level (each as reported, rounded to 2 decimals), however     *)
(* many rows the topic has.                                                *)
C18_TotalsCoverTheTopic ==
    (last.op = "by_topic" /\ last.status = 200)
        => LET n == Len(RowsOfTopic(last.topic)) IN
           /\ IsRounded2(last.total_hours, HoursOfTopic(last.topic))
           /\ 2 * Abs(last.average_difficulty * n
                      - 100 * DifficultyOfTopic(last.topic)) <= n

----------------------------------------------------------------------------
(* Properties of the authentication of add-progress *)

(* a bearer token that passes every check: signed with the secret key, not *)
(* expired, naming a user that exists                                      *)
TokenOk(bearer, now) ==
    /\ ~IsNone(bearer)
    /\ Get(bearer).key = SECRET_KEY
    /\ Get(bearer).exp >= now
    /\ ~IsNone(Get(bearer).sub)
    /\ Get(Get(bearer).sub) \in fake_users_db

C20_AddWithoutTokenSucceeds ==
    (/\ last.op = "add"
     /\ IsNone(last.bearer)
     /\ SatisfiesConstraints(Get(last.update)))
        => /\ last.status = 200
           /\ last.message = "Progress updated successfully!"
           /\ Len(last.data) = 1
           /\ last.data[1].id \in Ids(table)

----------------------------------------------------------------------------
(* Properties of login and of the token check *)

(* C21: a login that carries a username and a password is answered 200    *)
(* with a token of type bearer whose subject is the username exactly when  *)
(* the username is in the user database and the password is that user's;   *)
(* every other pair is answered 401 without a token.                       *)
C21_TokenIffCredentials ==
    (last.op = "login" /\ ~IsNone(last.username) /\ ~IsNone(last.password))
        => IF Get(last.username) = "denis"
              /\ Get(last.password) = "testpassword123"
           THEN /\ last.status = 200
                /\ last.token_type = "bearer"
                /\ ~IsNone(last.access_token)
                /\ Get(last.access_token).sub = last.username
           ELSE /\ last.status = 401
                /\ IsNone(last.access_token)
                /\ last.token_type = ""

(* a token issued some time after the start *)
C21_Witness ==
    /\ last.op = "login"
    /\ last.status = 200
    /\ clock > 0
    /\ Get(last.access_token).sub = Some("denis")

(* C22: a token issued by a login expires 30 minutes after its issue, one  *)
(* made by create_access_token without a lifetime 15 minutes after; the    *)
(* token check accepts a token exactly when it is signed with the secret   *)
(* key, its expiry has not passed, it has a "sub" claim and that names a   *)
(* user of the user database, and answers 401 to every other token.        *)
C22_TokenAcceptedUntilExpiry ==
    [][clock' = clock
        => /\ (last'.op = "login" /\ last'.status = 200)
                  => Get(last'.access_token).exp = clock + 30 * 60
           /\ (last'.op = "create_token" /\ IsNone(last'.expires_delta))
                  => Get(last'.access_token).exp = clock + 15 * 60
           /\ last'.op = "current_user"
                  => IF TokenOk(last'.bearer, clock)
                     THEN /\ last'.status = 200
                          /\ last'.username = Get(last'.bearer).sub
                     ELSE last'.status = 401]_vars

(* the token of a login refused one second after its expiry *)
C22_Witness ==
    /\ last.op = "current_user"
    /\ last.status = 401
    /\ ~IsNone(last.bearer)
    /\ Get(last.bearer).key = SECRET_KEY
    /\ Get(last.bearer).sub = Some("denis")
    /\ Get(last.bearer).exp = 30 * 60
    /\ clock = 30 * 60 + 1

----------------------------------------------------------------------------
(* Properties of failed and of read-only requests *)

(* C23: an update-progress request that is not answered 200 leaves the     *)
(* table exactly as it was.                                                *)
C23_FailedUpdateChangesNothing ==
    [][(clock' = clock /\ last'.op = "update" /\ last'.status # 200)
        => table' = table]_vars

(* a refused update of an existing record that sets hours_spent and nulls  *)
(* notes, with the record's hours_spent still what it was                  *)
C23_Witness ==
    /\ last.op = "update"
    /\ last.status = 400
    /\ last.entry_id \in Ids(table)
    /\ DOMAIN Get(last.patch) = {"hours_spent", "notes"}
    /\ IsNone(Get(last.patch).notes)
    /\ RowOf(table, last.entry_id).hours_spent
           # Get(Get(last.patch).hours_spent)

(* C24: when an operation that opened a store connection has ended, by     *)
(* returning or by raising, it holds no open connection.                   *)
C24_NoConnectionLeftOpen ==
    last.pc = "done" => last.connections = 0

(* C25: the questions that view-progress and update-progress read back are *)
(* never null: every entry carries a sequence, and an update that writes   *)
(* questions reads back the sequence it wrote, the empty one for null.     *)
C25_QuestionsReadBackAsSequence ==
    (last.op \in {"view", "update"} /\ last.status = 200)
        => /\ \A i \in 1..Len(last.data) : ~IsNone(last.data[i].questions)
           /\ (last.op = "update" /\ "questions" \in DOMAIN Get(last.patch))
                  => last.data[1].questions
                         = Some(IF IsNone(Get(last.patch).questions) THEN <<>>
                                ELSE Get(Get(last.patch).questions))

(* C26: view-progress, by-topic and learning-summary leave the table and   *)
(* its id counter as they were, and what view-progress returns is          *)
(* determined by the table alone, entry by entry in the order of the ids:  *)
(* so two calls with no change of the table between them return the same   *)
(* entries in the same order.                                              *)
C26_ReadsChangeNothing ==
    [][last'.op \in {"view", "by_topic", "summary"}
        => /\ table' = table
           /\ seq' = seq
           /\ last'.op = "view"
                  => /\ Len(last'.data) = Len(table)
                     /\ \A i \in 1..Len(table) :
                            /\ last'.data[i].id = table[i].id
                            /\ last'.data[i].timestamp = table[i].timestamp
                            /\ last'.data[i].notes = table[i].notes
                            /\ i > 1 => last'.data[i - 1].id < last'.data[i].id]_vars

(* a view of several records of two topics, made at a later time than the  *)
(* newest of them                                                          *)
C26_Witness ==
    /\ last.op = "view"
    /\ Len(last.data) >= 3
    /\ Cardinality({last.data[i].topic : i \in 1..Len(last.data)}) = 2
    /\ \A i \in 1..Len(last.data) : last.data[i].timestamp < clock

----------------------------------------------------------------------------
(* Properties of learning-summary on rows that hold no number *)

(* a row whose hours_spent and understanding_level are numbers *)
WellFormed(r) ==
    ~("unreadable" \in DOMAIN r)
    \/ r.unreadable \cap {"hours_spent", "understanding_level"} = {}

WellFormedOfTopic(topic) ==
    SelectSeq(table, LAMBDA r : WellFormed(r) /\ r.topic = topic)

SumOver(rows, col) == SumSeq([i \in 1..Len(rows) |-> rows[i][col]])

(* C27: learning-summary is answered 200 whatever rows hold no number in   *)
(* hours_spent or understanding_level; the breakdown has one entry per     *)
(* topic of a well-formed row, whose count, total_hours and                *)
(* average_understanding are those of the well-formed rows of the topic    *)
(* (rounded to 2 decimals), and total_hours is the rounded sum over the    *)
(* well-formed rows.                                                       *)
C27_MalformedRowsAreSkipped ==
    last.op = "summary"
        => LET good == SelectSeq(table, WellFormed)
               stats == last.topic_statistics
           IN /\ last.status = 200
              /\ {stats[i].topic : i \in 1..Len(stats)}
                     = {good[i].topic : i \in 1..Len(good)}
              /\ Len(stats) = Cardinality({good[i].topic : i \in 1..Len(good)})
              /\ \A i \in 1..Len(stats) :
                     LET mine == WellFormedOfTopic(stats[i].topic)
                         n == Len(mine)
                     IN /\ stats[i].number_of_sessions = n
                        /\ IsRounded2(stats[i].total_hours,
                                      SumOver(mine, "hours_spent"))
                        /\ 2 * Abs(stats[i].average_understanding * n
                                   - 100 * SumOver(mine, "understanding_level"))
                               <= n
              /\ IsRounded2(Get(last.summary).total_hours,
                            SumOver(good, "hours_spent"))

(* a summary of a table with a well-formed row, a row without a readable   *)
(* understanding_level on the same topic and a row without readable hours  *)
C27_Witness ==
    /\ last.op = "summary"
    /\ last.status = 200
    /\ Len(table) = 3
    /\ \E i, j, k \in 1..3 :
           /\ WellFormed(table[i])
           /\ ~WellFormed(table[j]) /\ table[j].topic = table[i].topic
           /\ "understanding_level" \in table[j].unreadable
           /\ ~WellFormed(table[k]) /\ "hours_spent" \in table[k].unreadable
    /\ Len(last.topic_statistics) = 1

----------------------------------------------------------------------------
(* Properties of concurrent requests *)

(* C28: of two delete-progress requests for the same stored id that have   *)
(* both been answered, one reports success (200) and the other not-found   *)
(* (404).                                                                  *)
C28_OneOfTwoDeletesSucceeds ==
    \A i, j \in 1..Len(last.requests) :
        (/\ i < j
         /\ last.requests[i].entry_id = last.requests[j].entry_id
         /\ last.requests[i].entry_id \in Range(issued)
         /\ last.requests[i].pc = "done"
         /\ last.requests[j].pc = "done")
            => {last.requests[i].status, last.requests[j].status} = {200, 404}

----------------------------------------------------------------------------
(* Properties of the authentication of every writing endpoint *)

(* C29: an add-progress, update-progress or delete-progress request that   *)
(* carries no bearer token passing every check is refused (not answered   *)
(* 200) and leaves the table and its id counter as they were.              *)
C29_WritesRequireAuthentication ==
    [][(/\ clock' = clock
        /\ last'.op \in {"add", "update", "delete"}
        /\ ~TokenOk(last'.bearer, clock))
        => /\ last'.status # 200
           /\ table' = table
           /\ seq' = seq]_vars

----------------------------------------------------------------------------
(* Properties of failed logins *)

(* C30: at the /token endpoint of learning_api.py and at that of           *)
(* auth_test.py, a login with an unknown username followed by a failed     *)
(* login with a known username is answered with the same status code and   *)
(* the same detail text as the one before it.                              *)
C30_FailedLoginsAreAlike ==
    [][(/\ last.op \in {"login", "auth_test_login"}
        /\ last'.op = last.op
        /\ ~IsNone(last.username) /\ ~IsNone(last.password)
        /\ ~IsNone(last'.username) /\ ~IsNone(last'.password)
        /\ Get(last.username)
              \notin (IF last.op = "login" THEN fake_users_db
                                           ELSE fake_user_db)
        /\ Get(last'.username)
              \in (IF last.op = "login" THEN fake_users_db ELSE fake_user_db)
        /\ last'.status # 200)
        => /\ last'.status = last.status
           /\ last'.detail = last.detail]_vars
====
